---- MODULE Spec2Model ----
(***************************************************************************)
(* A model of the globe generator create_globe.js (the multi-country       *)
(* version): command-line parsing, default output name, dataset checks,    *)
(* generateSvg and the single / batch writer.                              *)
(*                                                                         *)
(* Strings are sequences of one-character strings, so that split, trim,    *)
(* toUpperCase, join, parseInt and path.join are computed character by     *)
(* character.  A JavaScript value that may be undefined or null is a       *)
(* record [def, v]; a number that may be NaN is a record [nan, val].       *)
(***************************************************************************)
EXTENDS Integers, Sequences, FiniteSets, TLC

\* ------------------------------------------------------------------ bounds
\* Longest argument list enumerated by SpecArgs.
MaxArgs == 3
\* Most features in the decoded collection enumerated by Spec.
MaxFeatures == 2

\* --------------------------------------------------------- JavaScript values
Undefined == [def |-> FALSE, v |-> <<>>]
Some(s) == [def |-> TRUE, v |-> s]
\* A string operand of || is truthy when it is defined and not empty.
Truthy(o) == o.def /\ o.v # <<>>
\* a || b on optional strings.
OrElse(a, b) == IF Truthy(a) THEN a ELSE b

NaN == [nan |-> TRUE, val |-> 0]
Num(n) == [nan |-> FALSE, val |-> n]

\* ------------------------------------------------------------------ strings
LowerChars == <<"a","b","c","d","e","f","g","h","i","j","k","l","m",
                "n","o","p","q","r","s","t","u","v","w","x","y","z">>
UpperChars == <<"A","B","C","D","E","F","G","H","I","J","K","L","M",
                "N","O","P","Q","R","S","T","U","V","W","X","Y","Z">>
Digits == <<"0","1","2","3","4","5","6","7","8","9">>
WhiteSpace == {" ", "\t", "\n"}

UpperChar(c) ==
  IF \E n \in DOMAIN LowerChars : LowerChars[n] = c
  THEN UpperChars[CHOOSE n \in DOMAIN LowerChars : LowerChars[n] = c]
  ELSE c

\* String.prototype.toUpperCase
ToUpperCase(s) == [n \in DOMAIN s |-> UpperChar(s[n])]

RECURSIVE TrimStart(_)
TrimStart(s) ==
  IF s # <<>> /\ Head(s) \in WhiteSpace THEN TrimStart(Tail(s)) ELSE s

RECURSIVE TrimEnd(_)
TrimEnd(s) ==
  IF s # <<>> /\ s[Len(s)] \in WhiteSpace
  THEN TrimEnd(SubSeq(s, 1, Len(s) - 1))
  ELSE s

\* String.prototype.trim
Trim(s) == TrimEnd(TrimStart(s))

\* String.prototype.split(sep) for a one-character separator: the pieces
\* between separators, empty pieces kept; the empty string gives [""].
RECURSIVE SplitFrom(_, _, _)
SplitFrom(s, sep, cur) ==
  IF s = <<>> THEN <<cur>>
  ELSE IF Head(s) = sep THEN <<cur>> \o SplitFrom(Tail(s), sep, <<>>)
  ELSE SplitFrom(Tail(s), sep, Append(cur, Head(s)))

Split(s, sep) == SplitFrom(s, sep, <<>>)

\* Array.prototype.join(sep)
RECURSIVE Join(_, _)
Join(list, sep) ==
  IF list = <<>> THEN <<>>
  ELSE IF Len(list) = 1 THEN list[1]
  ELSE list[1] \o <<sep>> \o Join(Tail(list), sep)

DigitValue(c) == (CHOOSE n \in DOMAIN Digits : Digits[n] = c) - 1
IsDigit(c) == \E n \in DOMAIN Digits : Digits[n] = c

\* The value of the longest prefix of decimal digits of s, acc so far.
RECURSIVE DigitsValue(_, _)
DigitsValue(s, acc) ==
  IF s # <<>> /\ IsDigit(Head(s))
  THEN DigitsValue(Tail(s), 10 * acc + DigitValue(Head(s)))
  ELSE acc

\* parseInt(x, 10): undefined reads as "undefined" and gives NaN; leading
\* white space is skipped, one sign is taken, then the digits up to the
\* first other character; no digit gives NaN.
ParseInt(o) ==
  IF ~o.def THEN NaN
  ELSE LET t == TrimStart(o.v)
           signed == t # <<>> /\ Head(t) \in {"-", "+"}
           body == IF signed THEN Tail(t) ELSE t
       IN IF body = <<>> \/ ~IsDigit(Head(body)) THEN NaN
          ELSE IF signed /\ Head(t) = "-" THEN Num(0 - DigitsValue(body, 0))
          ELSE Num(DigitsValue(body, 0))

\* Mutant: a value that does not parse resets the option to 800.
NumOrElse_Default(p, cur) == IF p.nan \/ p.val = 0 THEN 800 ELSE p.val

\* parseInt(...) || cur : NaN and 0 are falsy.
NumOrElse(p, cur) == IF p.nan \/ p.val = 0 THEN cur ELSE p.val

\* -------------------------------------------------------------------- paths
Dot == <<".">>
SvgExt == <<".", "s", "v", "g">>

\* The index of the last "/" of p, 0 when there is none.
LastSlash(p) ==
  IF \E n \in DOMAIN p : p[n] = "/"
  THEN CHOOSE n \in DOMAIN p : p[n] = "/" /\ \A m \in DOMAIN p : p[m] = "/" => m <= n
  ELSE 0

\* The directory a path lies in: "." for a bare file name.
Dirname(p) ==
  IF LastSlash(p) = 0 THEN Dot
  ELSE IF LastSlash(p) = 1 THEN <<"/">>
  ELSE SubSeq(p, 1, LastSlash(p) - 1)

\* path.join(dir, file) for the directories the model draws: the segments
\* joined by "/", and a leading "." segment normalised away.
PathJoin(dir, file) == IF dir = Dot THEN file ELSE dir \o <<"/">> \o file

\* The directories fs.mkdirSync(d, {recursive: true}) makes sure exist:
\* d and every ancestor of d.
AncestorsAndSelf(d) ==
  {d} \cup {SubSeq(d, 1, n - 1) : n \in {m \in DOMAIN d : m > 1 /\ d[m] = "/"}}

\* fs.existsSync(d) for a directory path.
ExistsSync(d, ds) == d = Dot \/ d \in ds

\* Whether fs.writeFileSync(p, ...) succeeds: the parent directory exists
\* and p is not itself a directory; otherwise it throws.
CanWrite(p, ds) == ExistsSync(Dirname(p), ds) /\ p \notin ds

\* ----------------------------------------------------------------- colours
HighlightColour == "#EF4A60"
NeutralColour == "#D1CCCB"

\* ---------------------------------------------------------- command line
T_help == <<"-","-","h","e","l","p">>
T_iso3 == <<"-","-","i","s","o","3">>
T_i == <<"-","i">>
T_width == <<"-","-","w","i","d","t","h">>
T_w == <<"-","w">>
T_height == <<"-","-","h","e","i","g","h","t">>
T_output == <<"-","-","o","u","t","p","u","t">>
T_o == <<"-","o">>
T_outdir == <<"-","-","o","u","t","d","i","r">>
T_d == <<"-","d">>
T_all == <<"-","-","a","l","l">>

\* Values (and, where no option precedes them, unrecognized arguments).
V_eth == <<"e","t","h">>
V_gha_eth == <<" ","g","h","a",",","e","t","h">>
V_gha == <<"g","h","a">>
V_zz == <<"z","z">>
V_zz_eth == <<"z","z",",","e","t","h">>
V_40 == <<"4","0">>
V_empty == <<>>
V_o == <<"o">>
V_o_x == <<"o","/","x">>

\* The feature codes of the modelled datasets.
ETH == <<"E","T","H">>
GHA == <<"G","H","A">>

\* The arguments SpecArgs builds its argument lists from: every kind of
\* option, and values that are numeric, non-numeric, empty, a list to split
\* and a path.
Tokens ==
  {T_help, T_iso3, T_w, T_height, T_o, T_d, T_all,
   V_eth, V_gha_eth, V_40, V_empty, V_o_x}

RECURSIVE SeqsUpTo(_, _)
SeqsUpTo(S, n) ==
  IF n = 0 THEN {<<>>}
  ELSE LET shorter == SeqsUpTo(S, n - 1)
       IN shorter \cup {Append(q, x) : q \in shorter, x \in S}

AllArgLists == SeqsUpTo(Tokens, MaxArgs)

\* The command lines Spec renders: every option label, single and batch
\* mode, matched, partly matched and unmatched codes, help, a stray word.
RenderArgLists ==
  {<<>>,
   <<T_iso3, V_gha_eth>>,
   <<T_i, V_zz, T_w, V_40>>,
   <<T_iso3, V_zz_eth, T_output, V_o_x>>,
   <<T_all, T_outdir, V_o, T_height, V_40>>,
   <<T_all, T_i, V_gha, T_o, V_o_x>>,
   <<T_d, V_o, T_all, T_width, V_40>>,
   <<V_eth, T_all>>,
   <<T_iso3, V_gha, T_help>>}

\* ---------------------------------------------------------------- datasets
\* A bounding box [[minLon, minLat], [maxLon, maxLat]] in even degrees, so
\* that the midpoint is a whole number.
Boxes ==
  {<< <<34, 4>>, <<48, 14>> >>,
   << <<-4, 6>>, <<2, 12>> >>}

\* A decoded feature: properties.iso3, properties.secondary_territory and
\* the extent of its geometry.
Features ==
  [iso3 : {ETH, GHA}, secondary_territory : {0, 1}, bounds : Boxes]

FeatureLists == SeqsUpTo(Features, MaxFeatures)

Decoy ==
  <<[iso3 |-> GHA, secondary_territory |-> 0,
     bounds |-> << <<-4, 6>>, <<2, 12>> >>]>>

\* worldData after JSON.parse: objects may be missing; otherwise it is a
\* list of named collections in key order.
NoObjects == [hasObjects |-> FALSE, objects |-> <<>>]
EmptyObjects == [hasObjects |-> TRUE, objects |-> <<>>]
NamedFirst(fs) ==
  [hasObjects |-> TRUE,
   objects |-> <<[key |-> "layer", features |-> Decoy],
                 [key |-> "countries", features |-> fs]>>]
FirstOnly(fs) ==
  [hasObjects |-> TRUE,
   objects |-> <<[key |-> "layer", features |-> fs],
                 [key |-> "zones", features |-> Decoy]>>]

\* -------------------------------------------------------------------- state
VARIABLES
  argv,           \* process.argv.slice(2)
  datasetExists,  \* whether the fixed TopoJSON file is on disk
  worldData,      \* what JSON.parse of that file gives
  dirs,           \* the directories that exist, besides the working directory
  pc,             \* where the script is
  i,              \* the parsing loop's index (0-based, as in the source)
  iso3List, width, height, output, outdir, all,
  countries, mainCountries,
  k,              \* batch mode: how many of mainCountries are done
  datasetRead,    \* fs.readFileSync of the dataset has run
  console,        \* what was printed, in order: [stream, msg, arg]
  renders,        \* generateSvg's calls, in order: [highlight, svg]
  writes,         \* fs.writeFileSync's successful calls: [path, data]
  mkdirs,         \* fs.mkdirSync's calls: the directory
  status          \* "running", or how the process ended

vars ==
  <<argv, datasetExists, worldData, dirs, pc, i, iso3List, width, height,
    output, outdir, all, countries, mainCountries, k, datasetRead, console,
    renders, writes, mkdirs, status>>

config == <<iso3List, width, height, output, outdir, all>>
input == <<argv, datasetExists, worldData>>
loaded == <<countries, mainCountries, datasetRead>>
effects == <<dirs, renders, writes, mkdirs>>

\* let iso3List = ['ETH'], width = 800, height = 800
DefaultIso3List == <<ETH>>
DefaultWidth == 800
DefaultHeight == 800

InitState(args, exists, data, ds) ==
  /\ argv = args
  /\ datasetExists = exists
  /\ worldData = data
  /\ dirs = ds
  /\ pc = "parse"
  /\ i = 0
  /\ iso3List = DefaultIso3List
  /\ width = DefaultWidth
  /\ height = DefaultHeight
  /\ output = Undefined
  /\ outdir = Undefined
  /\ all = FALSE
  /\ countries = <<>>
  /\ mainCountries = <<>>
  /\ k = 0
  /\ datasetRead = FALSE
  /\ console = <<>>
  /\ renders = <<>>
  /\ writes = <<>>
  /\ mkdirs = <<>>
  /\ status = "running"

\* Every decoded dataset of up to MaxFeatures features under both shapes of
\* the topology, and the three datasets that fail to load; a few command
\* lines; the directory "o" present or not.
Init ==
  \E args \in RenderArgLists, ds \in {{}, {V_o}} :
    \/ \E fs \in FeatureLists, shape \in {"named", "first"} :
         InitState(args, TRUE,
                   IF shape = "named" THEN NamedFirst(fs) ELSE FirstOnly(fs), ds)
    \/ \E data \in {NoObjects, EmptyObjects} : InitState(args, TRUE, data, ds)
    \/ InitState(args, FALSE, NoObjects, ds)

ArgsFeatures ==
  <<[iso3 |-> GHA, secondary_territory |-> 0,
     bounds |-> << <<-4, 6>>, <<2, 12>> >>],
    [iso3 |-> ETH, secondary_territory |-> 0,
     bounds |-> << <<34, 4>>, <<48, 14>> >>]>>

\* Every argument list of up to MaxArgs tokens, over one good dataset, one
\* without collections and a missing file.
InitArgs ==
  \E args \in AllArgLists :
    \/ InitState(args, TRUE, NamedFirst(ArgsFeatures), {})
    \/ InitState(args, TRUE, EmptyObjects, {})
    \/ InitState(args, FALSE, NoObjects, {})

\* ------------------------------------------------------- argument parsing
\* argv[n], undefined past the end.
Arg(n) == IF n < Len(argv) THEN Some(argv[n + 1]) ELSE Undefined

Parsing == pc = "parse" /\ i < Len(argv)
Cur == argv[i + 1]

Emit(stream, msg, arg) ==
  console' = Append(console, [stream |-> stream, msg |-> msg, arg |-> arg])

\* Mutant: the usage is printed and parsing goes on.
ParseHelp_NoExit ==
  /\ Parsing /\ Cur = T_help
  /\ Emit("log", "usage", <<>>)
  /\ i' = i + 1
  /\ UNCHANGED <<input, config, loaded, effects, pc, k, status>>

\* case '--help': printHelp() prints the usage and calls process.exit(0).
ParseHelp ==
  /\ Parsing /\ Cur = T_help
  /\ Emit("log", "usage", <<>>)
  /\ status' = "exit0"
  /\ pc' = "done"
  /\ UNCHANGED <<input, config, loaded, effects, i, k>>

\* iso3List = (argv[++i] || iso3List.join(',')).split(',')
\*              .map(s => s.trim().toUpperCase())
Iso3ListOf(val, cur) ==
  LET text == IF Truthy(val) THEN val.v ELSE Join(cur, ",")
      parts == Split(text, ",")
  IN [n \in DOMAIN parts |-> ToUpperCase(Trim(parts[n]))]

\* Mutant: a following argument that starts with "-" is left to be parsed
\* as an option of its own.
ParseIso3_Peek ==
  /\ Parsing /\ Cur \in {T_iso3, T_i}
  /\ IF Arg(i + 1).def /\ Arg(i + 1).v # <<>> /\ Head(Arg(i + 1).v) = "-"
     THEN i' = i + 1 /\ UNCHANGED iso3List
     ELSE i' = i + 2 /\ iso3List' = Iso3ListOf(Arg(i + 1), iso3List)
  /\ UNCHANGED <<input, loaded, effects, width, height, output, outdir, all,
                 pc, k, console, status>>

ParseIso3 ==
  /\ Parsing /\ Cur \in {T_iso3, T_i}
  /\ iso3List' = Iso3ListOf(Arg(i + 1), iso3List)
  /\ i' = i + 2
  /\ UNCHANGED <<input, loaded, effects, width, height, output, outdir, all,
                 pc, k, console, status>>

\* width = parseInt(argv[++i], 10) || width
ParseWidth ==
  /\ Parsing /\ Cur \in {T_width, T_w}
  /\ width' = NumOrElse(ParseInt(Arg(i + 1)), width)
  /\ i' = i + 2
  /\ UNCHANGED <<input, loaded, effects, iso3List, height, output, outdir, all,
                 pc, k, console, status>>

\* height = parseInt(argv[++i], 10) || height
ParseHeight ==
  /\ Parsing /\ Cur = T_height
  /\ height' = NumOrElse(ParseInt(Arg(i + 1)), height)
  /\ i' = i + 2
  /\ UNCHANGED <<input, loaded, effects, iso3List, width, output, outdir, all,
                 pc, k, console, status>>

\* output = argv[++i] || output
ParseOutput ==
  /\ Parsing /\ Cur \in {T_output, T_o}
  /\ output' = OrElse(Arg(i + 1), output)
  /\ i' = i + 2
  /\ UNCHANGED <<input, loaded, effects, iso3List, width, height, outdir, all,
                 pc, k, console, status>>

\* outdir = argv[++i] || outdir
ParseOutdir ==
  /\ Parsing /\ Cur \in {T_outdir, T_d}
  /\ outdir' = OrElse(Arg(i + 1), outdir)
  /\ i' = i + 2
  /\ UNCHANGED <<input, loaded, effects, iso3List, width, height, output, all,
                 pc, k, console, status>>

\* case '--all': all = true
ParseAll ==
  /\ Parsing /\ Cur = T_all
  /\ all' = TRUE
  /\ i' = i + 1
  /\ UNCHANGED <<input, loaded, effects, iso3List, width, height, output,
                 outdir, pc, k, console, status>>

OptionLabels ==
  {T_help, T_iso3, T_i, T_width, T_w, T_height, T_output, T_o, T_outdir,
   T_d, T_all}

\* default: console.warn(`Unrecognized option: ${argv[i]}`)
ParseUnrecognized ==
  /\ Parsing /\ Cur \notin OptionLabels
  /\ Emit("warn", "unrecognized", Cur)
  /\ i' = i + 1
  /\ UNCHANGED <<input, config, loaded, effects, pc, k, status>>

\* The loop's condition i < argv.length fails.
ParseEnd ==
  /\ pc = "parse" /\ i >= Len(argv)
  /\ pc' = "defaults"
  /\ UNCHANGED <<input, config, loaded, effects, i, k, console, status>>

\* Mutant: the default file name is the first code's only.
DefaultOutputOf_First(list) == Some(list[1] \o SvgExt)

\* if (!all) { if (!output) output = `${iso3List.join(',')}.svg` }
DefaultOutputOf(list) == Some(Join(list, ",") \o SvgExt)

DefaultOutput ==
  /\ pc = "defaults"
  /\ output' = IF ~all /\ ~Truthy(output) THEN DefaultOutputOf(iso3List) ELSE output
  /\ pc' = "exists"
  /\ UNCHANGED <<input, loaded, effects, iso3List, width, height, outdir, all,
                 i, k, console, status>>

\* ---------------------------------------------------------- geometry loader
\* if (!fs.existsSync(inputTopoPath)) { console.error(...); process.exit(1) }
DatasetMissing ==
  /\ pc = "exists" /\ ~datasetExists
  /\ Emit("error", "TopoJSON not found", <<>>)
  /\ status' = "exit1"
  /\ pc' = "done"
  /\ UNCHANGED <<input, config, loaded, effects, i, k>>

DatasetFound ==
  /\ pc = "exists" /\ datasetExists
  /\ pc' = "load"
  /\ UNCHANGED <<input, config, loaded, effects, i, k, console, status>>

\* Object.keys(worldData.objects || {})
TopoKeys(data) ==
  IF data.hasObjects THEN [n \in DOMAIN data.objects |-> data.objects[n].key]
  ELSE <<>>

\* worldData.objects.countries ? 'countries' : topoKeys[0]
TopoKey(data) ==
  IF \E n \in DOMAIN data.objects : data.objects[n].key = "countries"
  THEN "countries"
  ELSE TopoKeys(data)[1]

\* topojson.feature(worldData, worldData.objects[topoKey]).features
FeaturesOf(data) ==
  LET n == CHOOSE m \in DOMAIN data.objects : data.objects[m].key = TopoKey(data)
  IN data.objects[n].features

\* Mutant: the filter keeps every feature.
MainCountriesOf_All(list) == list

\* d => d.properties.secondary_territory === 0
IsMain(d) == d.secondary_territory = 0

\* countries.filter(d => d.properties.secondary_territory === 0)
RECURSIVE MainCountriesOf(_)
MainCountriesOf(list) ==
  IF list = <<>> THEN <<>>
  ELSE IF IsMain(Head(list)) THEN <<Head(list)>> \o MainCountriesOf(Tail(list))
  ELSE MainCountriesOf(Tail(list))

\* Mutant: the missing collections are reported and the run goes on with
\* no feature.
LoadEmpty_Continues ==
  /\ pc = "load" /\ TopoKeys(worldData) = <<>>
  /\ datasetRead' = TRUE
  /\ Emit("error", "No topology objects found", <<>>)
  /\ countries' = <<>>
  /\ mainCountries' = <<>>
  /\ pc' = "main"
  /\ UNCHANGED <<input, config, effects, i, k, status>>

\* The file is read and parsed; no collection is fatal.
LoadEmpty ==
  /\ pc = "load" /\ TopoKeys(worldData) = <<>>
  /\ datasetRead' = TRUE
  /\ Emit("error", "No topology objects found", <<>>)
  /\ status' = "exit1"
  /\ pc' = "done"
  /\ UNCHANGED <<input, config, effects, countries, mainCountries, i, k>>

LoadFeatures ==
  /\ pc = "load" /\ TopoKeys(worldData) # <<>>
  /\ datasetRead' = TRUE
  /\ countries' = FeaturesOf(worldData)
  /\ mainCountries' = MainCountriesOf(FeaturesOf(worldData))
  /\ pc' = "main"
  /\ UNCHANGED <<input, config, effects, i, k, console, status>>

\* ------------------------------------------------------------ generateSvg
Min(a, b) == IF a <= b THEN a ELSE b
Max(a, b) == IF a >= b THEN a ELSE b

\* highlightIso3.includes(code)
Includes(list, code) == \E n \in DOMAIN list : list[n] = code

\* countries.filter(d => highlightIso3.includes(d.properties.iso3))
RECURSIVE Selected(_, _)
Selected(list, highlightIso3) ==
  IF list = <<>> THEN <<>>
  ELSE IF Includes(highlightIso3, Head(list).iso3)
       THEN <<Head(list)>> \o Selected(Tail(list), highlightIso3)
       ELSE Selected(Tail(list), highlightIso3)

\* geoBounds of a feature collection whose features do not cross the
\* antimeridian: the smallest box around every feature's extent.
RECURSIVE GeoBounds(_)
GeoBounds(list) ==
  IF Len(list) = 1 THEN Head(list).bounds
  ELSE LET b == Head(list).bounds
           r == GeoBounds(Tail(list))
       IN << <<Min(b[1][1], r[1][1]), Min(b[1][2], r[1][2])>>,
             <<Max(b[2][1], r[2][1]), Max(b[2][2], r[2][2])>> >>

\* Mutant: the projection is centred on the first selected feature alone.
RotationOf_First(selected) ==
  LET bounds == Head(selected).bounds
      centerLon == (bounds[1][1] + bounds[2][1]) \div 2
      centerLat == (bounds[1][2] + bounds[2][2]) \div 2
  IN <<0 - centerLon, 0 - centerLat>>

\* The argument of projection.rotate: minus the midpoint of the bounds (the
\* coordinates are even, so the halves are exact).
RotationOf(selected) ==
  LET bounds == GeoBounds(selected)
      centerLon == (bounds[1][1] + bounds[2][1]) \div 2
      centerLat == (bounds[1][2] + bounds[2][2]) \div 2
  IN <<0 - centerLon, 0 - centerLat>>

\* Mutant: only the first code of the list is filled in the highlight colour.
FillOf_FirstCodeOnly(d, highlightIso3) ==
  IF highlightIso3 # <<>> /\ highlightIso3[1] = d.iso3
  THEN HighlightColour ELSE NeutralColour

\* The fill and the stroke of a country path.
FillOf(d, highlightIso3) ==
  IF Includes(highlightIso3, d.iso3) THEN HighlightColour ELSE NeutralColour
StrokeOf(d, highlightIso3) ==
  IF Includes(highlightIso3, d.iso3) THEN HighlightColour ELSE NeutralColour

\* The projection: twice its scale and twice its translation (width and
\* height may be odd), whether rotate was called, and its rotation.
ProjectionOf(w, h, selected) ==
  [scale2 |-> Min(w, h) - 4,
   translate2 |-> <<w, h>>,
   clipAngle |-> 90,
   rotateCalled |-> selected # <<>>,
   rotate |-> IF selected # <<>> THEN RotationOf(selected) ELSE <<0, 0>>]

\* The scene generateSvg serialises: the root's attributes, the ocean, one
\* path per feature of countries in order, the graticule; each path's "d"
\* follows from the projection.
GenerateSvg(list, w, h, highlightIso3) ==
  [width |-> w,
   height |-> h,
   projection |-> ProjectionOf(w, h, Selected(list, highlightIso3)),
   ocean |-> [fill |-> "white"],
   paths |-> [n \in DOMAIN list |->
                [iso3 |-> list[n].iso3,
                 secondary_territory |-> list[n].secondary_territory,
                 fill |-> FillOf(list[n], highlightIso3),
                 stroke |-> StrokeOf(list[n], highlightIso3)]],
   graticule |-> [fill |-> "none", stroke |-> "white", step |-> <<30, 30>>]]

\* ------------------------------------------------------------------- main
\* const dir = outdir || '.'
BatchDir == IF Truthy(outdir) THEN outdir.v ELSE Dot

\* path.join(dir, `${iso}.svg`)
BatchFilename(iso) == PathJoin(BatchDir, iso \o SvgExt)

\* Mutant: every batch image highlights the command line's list.
BatchHighlight_List(iso) == iso3List

\* generateSvg([iso])
BatchHighlight(iso) == <<iso>>

\* if (all): if (!fs.existsSync(dir)) fs.mkdirSync(dir, { recursive: true })
BatchStart ==
  /\ pc = "main" /\ all
  /\ IF ExistsSync(BatchDir, dirs)
     THEN UNCHANGED <<dirs, mkdirs>>
     ELSE /\ dirs' = dirs \cup AncestorsAndSelf(BatchDir)
          /\ mkdirs' = Append(mkdirs, BatchDir)
  /\ k' = 0
  /\ pc' = "batch"
  /\ UNCHANGED <<input, config, loaded, renders, writes, i, console, status>>

\* One round of for (const feat of mainCountries): render [iso], write it
\* and report it; a write that throws ends the process.
BatchWrite ==
  /\ pc = "batch" /\ k < Len(mainCountries)
  /\ LET iso == mainCountries[k + 1].iso3
         filename == BatchFilename(iso)
         svg == GenerateSvg(countries, width, height, BatchHighlight(iso))
     IN /\ renders' = Append(renders, [highlight |-> BatchHighlight(iso), svg |-> svg])
        /\ IF CanWrite(filename, dirs)
           THEN /\ writes' = Append(writes, [path |-> filename, data |-> svg])
                /\ Emit("log", "written", filename)
                /\ k' = k + 1
                /\ UNCHANGED <<pc, status>>
           ELSE /\ Emit("error", "uncaught", filename)
                /\ status' = "exit1"
                /\ pc' = "done"
                /\ UNCHANGED <<writes, k>>
  /\ UNCHANGED <<input, config, loaded, dirs, mkdirs, i>>

\* The loop is over and the process ends.
BatchEnd ==
  /\ pc = "batch" /\ k >= Len(mainCountries)
  /\ status' = "exit0"
  /\ pc' = "done"
  /\ UNCHANGED <<input, config, loaded, effects, i, k, console>>

\* else: fs.writeFileSync(output, generateSvg(iso3List)); a write that
\* throws is not caught.
SingleWrite ==
  /\ pc = "main" /\ ~all
  /\ LET svg == GenerateSvg(countries, width, height, iso3List)
     IN /\ renders' = Append(renders, [highlight |-> iso3List, svg |-> svg])
        /\ IF CanWrite(output.v, dirs)
           THEN /\ writes' = Append(writes, [path |-> output.v, data |-> svg])
                /\ Emit("log", "written", output.v)
                /\ status' = "exit0"
           ELSE /\ Emit("error", "uncaught", output.v)
                /\ status' = "exit1"
                /\ UNCHANGED writes
  /\ pc' = "done"
  /\ UNCHANGED <<input, config, loaded, dirs, mkdirs, i, k>>

\* ---------------------------------------------------------- specifications
Next ==
  \/ ParseHelp
  \/ ParseIso3
  \/ ParseWidth
  \/ ParseHeight
  \/ ParseOutput
  \/ ParseOutdir
  \/ ParseAll
  \/ ParseUnrecognized
  \/ ParseEnd
  \/ DefaultOutput
  \/ DatasetMissing
  \/ DatasetFound
  \/ LoadEmpty
  \/ LoadFeatures
  \/ BatchStart
  \/ BatchWrite
  \/ BatchEnd
  \/ SingleWrite

\* Rendering and writing, over every dataset.
Spec == Init /\ [][Next]_vars

\* Argument parsing, over every argument list.
SpecArgs == InitArgs /\ [][Next]_vars

\* ------------------------------------------------------------- properties
Range(q) == {q[n] : n \in DOMAIN q}
HelpPrinted == \E n \in DOMAIN console : console[n].msg = "usage"
Warned(msg, arg) ==
  \E n \in DOMAIN console :
    console[n].stream = "warn" /\ console[n].msg = msg /\ console[n].arg = arg
Errored(msg) ==
  \E n \in DOMAIN console : console[n].stream = "error" /\ console[n].msg = msg

\* The features the loader decodes from the dataset, and the positions of
\* the main-territory ones, in dataset order.
Loaded == FeaturesOf(worldData)
MainIdx == {n \in DOMAIN Loaded : Loaded[n].secondary_territory = 0}
NthMain(j) == CHOOSE n \in MainIdx : Cardinality({m \in MainIdx : m < n}) = j - 1
MainCodes == {Loaded[n].iso3 : n \in MainIdx}

\* The positions of the loaded features whose code is one of hs.
Matching(hs) == {n \in DOMAIN countries : countries[n].iso3 \in hs}
SetMin(S) == CHOOSE x \in S : \A y \in S : x <= y
SetMax(S) == CHOOSE x \in S : \A y \in S : x >= y

\* C1: in every image generateSvg draws, there is one path per loaded
\* feature, secondary territories included, and a feature's path has the
\* highlight colour as fill and as stroke exactly when its code is a member
\* of the highlight list, and the neutral colour as both otherwise; in
\* single mode the highlight list is the resolver's trimmed, uppercased list.
C1_ExactMatchHighlight ==
  \A r \in DOMAIN renders :
    LET hs == Range(renders[r].highlight)
        paths == renders[r].svg.paths
    IN /\ (~all => renders[r].highlight = iso3List)
       /\ DOMAIN paths = DOMAIN countries
       /\ \A n \in DOMAIN countries :
            LET colour == IF countries[n].iso3 \in hs
                          THEN "#EF4A60" ELSE "#D1CCCB"
            IN /\ paths[n].iso3 = countries[n].iso3
               /\ paths[n].fill = colour
               /\ paths[n].stroke = colour

\* A single-mode image of a two-code list that highlights a secondary
\* territory under the list's second code and leaves another feature neutral.
C1_Witness ==
  /\ ~all /\ Len(renders) = 1 /\ Len(iso3List) = 2
  /\ \E n, m \in DOMAIN countries :
       /\ countries[n].secondary_territory = 1
       /\ countries[n].iso3 = iso3List[2]
       /\ renders[1].svg.paths[n].fill = HighlightColour
       /\ renders[1].svg.paths[m].fill = NeutralColour

\* C4: in every image, when some loaded feature's code is in the highlight
\* list, rotate was called with minus the midpoint of the box around ALL the
\* loaded features whose code is in the list, main and secondary alike;
\* when none is, rotate was not called and the rotation is (0, 0).
C4_RotationCentering ==
  \A r \in DOMAIN renders :
    LET hit == Matching(Range(renders[r].highlight))
        proj == renders[r].svg.projection
        minLon == SetMin({countries[n].bounds[1][1] : n \in hit})
        minLat == SetMin({countries[n].bounds[1][2] : n \in hit})
        maxLon == SetMax({countries[n].bounds[2][1] : n \in hit})
        maxLat == SetMax({countries[n].bounds[2][2] : n \in hit})
    IN IF hit # {}
       THEN /\ proj.rotateCalled
            /\ 2 * proj.rotate[1] = 0 - (minLon + maxLon)
            /\ 2 * proj.rotate[2] = 0 - (minLat + maxLat)
       ELSE /\ ~proj.rotateCalled
            /\ proj.rotate = <<0, 0>>

\* An image whose highlight matches a main and a secondary feature of
\* different extents, centred on neither feature's own midpoint.
C4_Witness ==
  \E r \in DOMAIN renders :
    \E n, m \in Matching(Range(renders[r].highlight)) :
      /\ countries[n].secondary_territory = 0
      /\ countries[m].secondary_territory = 1
      /\ countries[n].bounds # countries[m].bounds
      /\ renders[r].svg.projection.rotate # RotationOf(<<countries[n]>>)
      /\ renders[r].svg.projection.rotate # RotationOf(<<countries[m]>>)

\* C9: in batch mode, whatever --iso3 and --output were given, the writes
\* so far are, in order, those of the first main-territory features of the
\* dataset: the j-th goes to <outdir>/<code_j>.svg and holds the image
\* rendered with the highlight list [code_j]; none goes to the --output
\* path; and when the run ends well there is one write per main feature.
C9_BatchOrder ==
  (all /\ pc \in {"batch", "done"} /\ ~HelpPrinted /\ datasetRead
       /\ TopoKeys(worldData) # <<>>) =>
    /\ Len(writes) <= Cardinality(MainIdx)
    /\ Len(renders) = Len(writes)
    /\ \A j \in DOMAIN writes :
         LET code == Loaded[NthMain(j)].iso3
         IN /\ writes[j].path =
                 (IF Truthy(outdir) THEN outdir.v \o <<"/">> ELSE <<>>)
                   \o code \o <<".", "s", "v", "g">>
            /\ renders[j].highlight = <<code>>
            /\ writes[j].data = renders[j].svg
            /\ \A n \in DOMAIN Loaded :
                 (writes[j].data.paths[n].fill = HighlightColour)
                   <=> (Loaded[n].iso3 = code)
            /\ (output.def => writes[j].path # output.v)
    /\ (pc = "done" /\ status = "exit0" => Len(writes) = Cardinality(MainIdx))

\* A finished batch run that was also given --iso3 and --output, over a
\* dataset whose two main features are not in alphabetical order.
C9_Witness ==
  /\ all /\ pc = "done" /\ status = "exit0"
  /\ output.def /\ iso3List # DefaultIso3List
  /\ Len(writes) = 2
  /\ renders[1].highlight = <<GHA>> /\ renders[2].highlight = <<ETH>>

\* A batch run that got through the loader and ended well.
BatchFinished == all /\ pc = "done" /\ status = "exit0" /\ ~HelpPrinted
WrittenPaths == {writes[j].path : j \in DOMAIN writes}

C3_UnmatchedWarned ==
  /\ \A r \in DOMAIN renders :
       LET hl == Range(renders[r].highlight)
       IN /\ \A c \in hl :
               Matching({c}) = {} => Warned("iso3 code not found", c)
          /\ Matching(hl) = {} =>
               /\ \A n \in DOMAIN countries :
                    /\ renders[r].svg.paths[n].fill = NeutralColour
                    /\ renders[r].svg.paths[n].stroke = NeutralColour
               /\ renders[r].svg.projection.rotate = <<0, 0>>
  /\ (pc = "done" /\ ~all /\ renders # <<>> /\ CanWrite(output.v, dirs)) =>
       writes = <<[path |-> output.v, data |-> renders[1].svg]>>

\* What C3 claims apart from the warning, which the code does: unmatched
\* codes do not stop the render or the write, and an image none of whose
\* codes matches is all neutral and unrotated.
C3_RenderedWithoutWarning ==
  /\ \A r \in DOMAIN renders :
       Matching(Range(renders[r].highlight)) = {} =>
         /\ \A n \in DOMAIN countries :
              /\ renders[r].svg.paths[n].fill = NeutralColour
              /\ renders[r].svg.paths[n].stroke = NeutralColour
         /\ renders[r].svg.projection.rotate = <<0, 0>>
         /\ ~renders[r].svg.projection.rotateCalled
  /\ (pc = "done" /\ ~all /\ renders # <<>> /\ CanWrite(output.v, dirs)) =>
       writes = <<[path |-> output.v, data |-> renders[1].svg]>>
  /\ \A n \in DOMAIN console : console[n].msg # "iso3 code not found"

\* The dataset cannot be loaded: the file is absent, or it has no collection.
LoadFails == ~datasetExists \/ TopoKeys(worldData) = <<>>

\* C6: when the dataset file is absent or the decoded dataset has no object
\* collection (objects missing or empty), then in single and in batch mode
\* nothing is ever rendered, no directory is made and no file is written,
\* an absent file is never read, and a run that gets past argument parsing
\* (no --help) goes on until it has printed the matching error and ended
\* with a non-zero status.
C6_LoadFailureFatal ==
  LoadFails =>
    /\ renders = <<>> /\ writes = <<>> /\ mkdirs = <<>>
    /\ countries = <<>> /\ mainCountries = <<>>
    /\ pc \notin {"main", "batch"}
    /\ (~datasetExists => ~datasetRead)
    /\ (pc # "done" => status = "running" /\ ENABLED Next)
    /\ (pc = "done" /\ ~HelpPrinted) =>
         /\ status = "exit1"
         /\ Errored(IF datasetExists THEN "No topology objects found"
                    ELSE "TopoJSON not found")
         /\ Cardinality({n \in DOMAIN console : console[n].stream = "error"}) = 1

\* A batch run with an output directory to make, ended by a dataset that
\* has no objects member, the directory still absent.
C6_Witness ==
  /\ all /\ Truthy(outdir) /\ ~ExistsSync(BatchDir, dirs)
  /\ datasetExists /\ worldData = NoObjects
  /\ pc = "done" /\ status = "exit1"

\* Argument parsing and default-filling are over (and --help did not end
\* the run before them).
Resolved == pc \notin {"parse", "defaults"} /\ ~HelpPrinted
NoOutputOption == \A n \in DOMAIN argv : argv[n] \notin {T_output, T_o}

\* C5: with no argument the resolved configuration is codes ["ETH"], width
\* 800, height 800, batch mode off and output "ETH.svg"; and whenever no
\* --output/-o is given in single mode, the output path is the codes joined
\* with "," followed by ".svg" (so "GHA,ETH.svg" for --iso3 " gha,eth").
C5_DefaultFilling ==
  Resolved =>
    /\ argv = <<>> =>
         /\ iso3List = << <<"E","T","H">> >>
         /\ width = 800 /\ height = 800 /\ ~all /\ ~Truthy(outdir)
         /\ output = Some(<<"E","T","H",".","s","v","g">>)
    /\ argv = <<T_iso3, V_gha_eth>> =>
         output = Some(<<"G","H","A",",","E","T","H",".","s","v","g">>)
    /\ (~all /\ NoOutputOption) =>
         /\ output.def
         /\ output.v = Join(iso3List, ",") \o <<".","s","v","g">>

\* A resolved single-mode run with a two-code list and no --output.
C5_Witness ==
  /\ Resolved /\ ~all /\ NoOutputOption
  /\ Len(iso3List) = 2 /\ iso3List[1] # iso3List[2]
  /\ output.v = iso3List[1] \o <<",">> \o iso3List[2] \o SvgExt

\* The parsing step at a --width/-w (--height) whose value does not parse:
\* it is missing, or has no leading number.
WidthFails == Parsing /\ Cur \in {T_width, T_w} /\ ParseInt(Arg(i + 1)).nan
HeightFails == Parsing /\ Cur = T_height /\ ParseInt(Arg(i + 1)).nan

\* C7 (as claimed): whenever the value given to --width/-w or --height does
\* not parse as a number, the resulting width or height is the default 800,
\* nothing is reported and parsing goes on.
C7_FallBackToDefault ==
  [][/\ WidthFails => width' = 800 /\ console' = console /\ pc' = "parse"
     /\ HeightFails => height' = 800 /\ console' = console /\ pc' = "parse"]_vars

\* The width (height) differs from 800 only by an earlier --width/-w
\* (--height) whose value parsed to it.
SetByOption(labels, value) ==
  \E n \in 1..i :
    /\ n < Len(argv)
    /\ argv[n] \in labels
    /\ ParseInt(Some(argv[n + 1])) = Num(value)

\* C7 (amended): whenever the value given to --width/-w or --height does not
\* parse as a number, the width or height keeps the value it had before the
\* option, which is the default 800 unless an earlier occurrence of the
\* option set it; nothing is reported, no other setting changes and parsing
\* goes on after the value.
C7_FallBackToCurrent ==
  /\ [][/\ WidthFails =>
            /\ width' = width /\ console' = console /\ status' = status
            /\ pc' = "parse" /\ i' = i + 2
            /\ UNCHANGED <<iso3List, height, output, outdir, all>>
        /\ HeightFails =>
            /\ height' = height /\ console' = console /\ status' = status
            /\ pc' = "parse" /\ i' = i + 2
            /\ UNCHANGED <<iso3List, width, output, outdir, all>>]_vars
  /\ [](/\ width # 800 => SetByOption({T_width, T_w}, width)
        /\ height # 800 => SetByOption({T_height}, height))

\* Parsing has just passed a last -w that has no value, after an earlier
\* -w set the width to 40.
C7_Witness ==
  /\ pc = "parse" /\ i = Len(argv) + 1
  /\ argv[Len(argv)] = T_w
  /\ width = 40

\* The loader's first check has run: the script is at or past it, or it
\* has left its mark (the dataset was read, or found missing).
LoaderReached ==
  \/ pc \in {"exists", "load", "main", "batch"}
  \/ datasetRead
  \/ Errored("TopoJSON not found")

\* C8: when --help is reached as an option the usage is printed and the
\* process ends at once with status 0, the dataset unread, no directory
\* made, nothing rendered or written, whatever precedes or follows it; an
\* unrecognized argument only adds a warning and leaves every setting as it
\* was; and every other step of the parser and of the default-filling keeps
\* the process running and moves it forward (i grows, then the defaults,
\* then the loader's first check), so that a run that ends without --help
\* has been through the loader.
C8_HelpShortCircuits ==
  /\ [](HelpPrinted =>
          /\ pc = "done" /\ status = "exit0"
          /\ i < Len(argv) /\ argv[i + 1] = T_help
          /\ ~datasetRead /\ ~LoaderReached
          /\ Len(console) = 1 + Cardinality({n \in DOMAIN console :
                                              console[n].stream = "warn"})
          /\ mkdirs = <<>> /\ renders = <<>> /\ writes = <<>>)
  /\ [][(Parsing /\ Cur = T_help) =>
          (HelpPrinted' /\ pc' = "done" /\ status' = "exit0")]_vars
  /\ [][(Parsing /\ Cur \notin OptionLabels) =>
          /\ console' = Append(console, [stream |-> "warn",
                                         msg |-> "unrecognized", arg |-> Cur])
          /\ UNCHANGED <<iso3List, width, height, output, outdir, all>>
          /\ pc' = "parse" /\ status' = status /\ i' = i + 1]_vars
  /\ [][(pc \in {"parse", "defaults"} /\ ~(Parsing /\ Cur = T_help)) =>
          /\ status' = "running"
          /\ pc' = (IF pc = "defaults" THEN "exists"
                    ELSE IF i >= Len(argv) THEN "defaults" ELSE "parse")
          /\ (pc' = "parse" => i' > i)
          /\ UNCHANGED <<dirs, renders, writes, mkdirs, datasetRead>>]_vars
  /\ [](~HelpPrinted =>
          /\ (pc \in {"parse", "defaults"} =>
                /\ status = "running"
                /\ i <= Len(argv) + 1
                /\ \A n \in DOMAIN console : console[n].stream = "warn")
          /\ (pc = "done" => LoaderReached))

\* --help reached as the second of three arguments, after --all and before
\* another option: the run is over, nothing loaded.
C8_Witness ==
  /\ HelpPrinted /\ i = 1 /\ Len(argv) = 3
  /\ all /\ argv[3] \in OptionLabels
  /\ pc = "done" /\ status = "exit0"

ValueLabels ==
  {T_iso3, T_i, T_width, T_w, T_height, T_output, T_o, T_outdir, T_d}

\* The arguments that have been the loop's argv[i] so far: i only grows,
\* by one or by two, and stops at --help.
RECURSIVE Visited(_)
Visited(n) ==
  IF n >= Len(argv) THEN {}
  ELSE IF argv[n + 1] = T_help THEN {n}
  ELSE IF argv[n + 1] \in ValueLabels THEN {n} \cup Visited(n + 2)
  ELSE {n} \cup Visited(n + 1)

\* C10: a value-taking option always takes the next argument as its value,
\* whatever it looks like, and parsing resumes after it with nothing
\* reported, so the taken argument is never acted on as an option (batch
\* mode is on only if some --all was itself parsed as an option; for
\* [--iso3, --all] batch mode stays off and the list becomes ["--ALL"]); and
\* a value-taking option that is the last argument changes no setting and
\* ends parsing silently.
C10_ValueAlwaysConsumed ==
  /\ [][(Parsing /\ Cur \in ValueLabels) =>
          /\ i' = i + 2 /\ pc' = "parse"
          /\ console' = console /\ status' = status /\ all' = all
          /\ (i + 1 >= Len(argv) =>
                UNCHANGED <<iso3List, width, height, output, outdir, all>>)
          /\ (Cur \in {T_iso3, T_i} /\ i + 1 < Len(argv) /\ argv[i + 2] # <<>> =>
                Join(iso3List', ",") = ToUpperCase(Join(
                   [n \in DOMAIN Split(argv[i + 2], ",") |->
                      Trim(Split(argv[i + 2], ",")[n])], ",")))
          /\ (Cur \in {T_output, T_o} /\ i + 1 < Len(argv) /\ argv[i + 2] # <<>> =>
                output' = Some(argv[i + 2]))
          /\ (Cur \in {T_outdir, T_d} /\ i + 1 < Len(argv) /\ argv[i + 2] # <<>> =>
                outdir' = Some(argv[i + 2]))]_vars
  /\ [](/\ all => \E n \in Visited(0) : n < i /\ argv[n + 1] = T_all
        /\ HelpPrinted => i \in Visited(0)
        /\ (argv = <<T_iso3, T_all>> /\ pc # "parse") =>
             /\ ~all
             /\ iso3List = << <<"-","-","A","L","L">> >>
             /\ \A n \in DOMAIN console : console[n].stream # "warn")

\* [--iso3, --all] parsed: the list is ["--ALL"], batch mode is off.
C10_Witness ==
  /\ argv = <<T_iso3, T_all>>
  /\ pc = "defaults"
  /\ ~all
  /\ iso3List = <<ToUpperCase(T_all)>>

====
